---- MODULE Spec2Model ----
(***************************************************************************)
(* eload: overlay of process-environment variables onto a typed            *)
(* configuration value (src/src/lib.rs).                                   *)
(*                                                                         *)
(* One behaviour of the model is one call of load(pfx, &t): the baseline   *)
(* tree is encoded, the typed value is walked field by field, every        *)
(* non-record node performs Serializer::load (ambiguity check, environment *)
(* lookup, decode of the text, find_and_update on the tree), and the tree  *)
(* is decoded back.                                                        *)
(*                                                                         *)
(* Strings that the program upper-cases or joins (field names, the prefix, *)
(* mapping keys, addresses) are sequences of one-character strings, so     *)
(* that to_uppercase and the "_" join are computed and two different       *)
(* field chains can produce the same address.                              *)
(***************************************************************************)
EXTENDS Integers, Sequences, FiniteSets, TLC

VARIABLES
    t,          \* the caller's typed value (&T: read only)
    pfx,        \* the prefix argument
    env,        \* the process environment, as far as the call has read it
    pc,         \* where the call is
    pos,        \* typed position of the walk (field indices from the root)
    curpath,    \* Serializer.curpath
    paths,      \* Serializer.paths
    value,      \* Serializer.value
    warnings,   \* addresses passed to warn!, in order
    calls,      \* one record per Serializer::load call, in order
    result      \* what load returned to the caller

vars == <<t, pfx, env, pc, pos, curpath, paths, value, warnings, calls, result>>

(***************************************************************************)
(* Bounds of the explored inputs.                                          *)
(***************************************************************************)
MaxFields == 2      \* fields per record
MaxDepth == 2       \* nesting depth of records
MaxLeaves == 2      \* non-record nodes (overlay checks) per typed value

(***************************************************************************)
(* Text.                                                                   *)
(***************************************************************************)
ToUpperChar(c) ==
    CASE c = "a" -> "A"
      [] c = "b" -> "B"
      [] c = "p" -> "P"
      [] OTHER -> c

to_uppercase(s) == [i \in 1..Len(s) |-> ToUpperChar(s[i])]

RECURSIVE join(_)
join(segs) ==
    IF Len(segs) = 0 THEN <<>>
    ELSE IF Len(segs) = 1 THEN segs[1]
    ELSE segs[1] \o <<"_">> \o join(Tail(segs))

(***************************************************************************)
(* serde_yaml::Value.  A mapping or sequence keeps its children in order;  *)
(* a mapping key is itself a Value.                                        *)
(***************************************************************************)
Val(kind, num, str, kids) == [kind |-> kind, num |-> num, str |-> str, kids |-> kids]
Null == Val("null", 0, <<>>, <<>>)
Number(n) == Val("num", n, <<>>, <<>>)
String(s) == Val("str", 0, s, <<>>)
Sequence(xs) == Val("seq", 0, <<>>, [i \in 1..Len(xs) |-> [key |-> Null, val |-> xs[i]]])
Mapping(es) == Val("map", 0, <<>>, es)

(***************************************************************************)
(* Typed values: u32, Option<u32>, Vec<u32>, a map from String to u32, and *)
(* structs of these.                                                       *)
(***************************************************************************)
Typed(ty, n, some, fields) == [ty |-> ty, n |-> n, some |-> some, fields |-> fields]
NumT(n) == Typed("num", n, FALSE, <<>>)
OptT(some, n) == Typed("opt", n, some, <<>>)
SeqT(ns) == Typed("seq", 0, FALSE, [i \in 1..Len(ns) |-> [name |-> <<>>, val |-> NumT(ns[i])]])
MapT(es) == Typed("map", 0, FALSE, es)
RecT(fs) == Typed("rec", 0, FALSE, fs)
NoT == Typed("none", 0, FALSE, <<>>)

RECURSIVE LeafCount(_)
LeafCount(v) ==
    IF v.ty # "rec" THEN 1
    ELSE IF Len(v.fields) = 1 THEN LeafCount(v.fields[1].val)
    ELSE LeafCount(v.fields[1].val) + LeafCount(RecT(Tail(v.fields)))

RECURSIVE TypedAt(_, _)
TypedAt(v, p) == IF p = <<>> THEN v ELSE TypedAt(v.fields[Head(p)].val, Tail(p))

(***************************************************************************)
(* serde_yaml::to_value and serde_yaml::from_value for these types.        *)
(***************************************************************************)
RECURSIVE to_value(_)
to_value(v) ==
    CASE v.ty = "num" -> Number(v.n)
      [] v.ty = "opt" -> IF v.some THEN Number(v.n) ELSE Null
      [] v.ty = "seq" -> Sequence([i \in 1..Len(v.fields) |-> to_value(v.fields[i].val)])
      [] OTHER -> Mapping([i \in 1..Len(v.fields) |->
                     [key |-> String(v.fields[i].name), val |-> to_value(v.fields[i].val)]])

KeyIndex(tree, name) ==
    LET hits == {i \in 1..Len(tree.kids) : tree.kids[i].key = String(name)}
    IN IF hits = {} THEN 0 ELSE CHOOSE i \in hits : \A j \in hits : i <= j

\* [ok, val]: the typed value of v's type decoded from tree, or a failure.
\* A struct ignores entries that name none of its fields, and an Option
\* field with no entry is None.
RECURSIVE from_value(_, _)
from_value(v, tree) ==
    LET Fail == [ok |-> FALSE, val |-> NoT]
        Ok(x) == [ok |-> TRUE, val |-> x]
    IN CASE v.ty = "num" -> IF tree.kind = "num" THEN Ok(NumT(tree.num)) ELSE Fail
         [] v.ty = "opt" -> IF tree.kind = "null" THEN Ok(OptT(FALSE, 0))
                            ELSE IF tree.kind = "num" THEN Ok(OptT(TRUE, tree.num))
                            ELSE Fail
         [] v.ty = "seq" ->
              IF tree.kind = "seq" /\ \A i \in 1..Len(tree.kids) : tree.kids[i].val.kind = "num"
              THEN Ok(SeqT([i \in 1..Len(tree.kids) |-> tree.kids[i].val.num]))
              ELSE Fail
         [] v.ty = "map" ->
              IF /\ tree.kind = "map"
                 /\ \A i \in 1..Len(tree.kids) :
                        tree.kids[i].key.kind = "str" /\ tree.kids[i].val.kind = "num"
              THEN Ok(MapT([i \in 1..Len(tree.kids) |->
                        [name |-> tree.kids[i].key.str, val |-> NumT(tree.kids[i].val.num)]]))
              ELSE Fail
         [] OTHER ->
              IF tree.kind # "map" THEN Fail
              ELSE LET dec == [i \in 1..Len(v.fields) |->
                                  LET k == KeyIndex(tree, v.fields[i].name)
                                  IN IF k = 0
                                     THEN IF v.fields[i].val.ty = "opt"
                                          THEN Ok(OptT(FALSE, 0)) ELSE Fail
                                     ELSE from_value(v.fields[i].val, tree.kids[k].val)]
                   IN IF \A i \in 1..Len(v.fields) : dec[i].ok
                      THEN Ok(RecT([i \in 1..Len(v.fields) |->
                                [name |-> v.fields[i].name, val |-> dec[i].val]]))
                      ELSE Fail

(***************************************************************************)
(* serde_yaml::from_str on the literals the environment can hold.          *)
(***************************************************************************)
Texts == {"", "5", "[7]", "{b: 5}", "{1: 5}", "["}

from_str(text) ==
    LET Ok(x) == [ok |-> TRUE, val |-> x]
    IN CASE text = "~" -> Ok(Null)
         [] text = "5" -> Ok(Number(5))
         [] text = "[7]" -> Ok(Sequence(<<Number(7)>>))
         [] text = "{b: 5}" -> Ok(Mapping(<<[key |-> String(<<"b">>), val |-> Number(5)]>>))
         [] text = "{1: 5}" -> Ok(Mapping(<<[key |-> Number(1), val |-> Number(5)]>>))
         [] OTHER -> [ok |-> FALSE, val |-> Null]    \* "" (end of stream), "["

(***************************************************************************)
(* to_key_str and find_and_update.  A key that is no string reaches        *)
(* unreachable!, which panics: the search reports it as panic.             *)
(***************************************************************************)
\* variant: the key is not upper-cased
to_key_str_verbatim(key) == key.str

to_key_str(key) == to_uppercase(key.str)

RECURSIVE find_and_update(_, _, _, _)
RECURSIVE find_in_map(_, _, _, _, _)
RECURSIVE find_in_map_no_return(_, _, _, _, _)

find_and_update(tree, cur, target, new_value) ==
    IF cur = target
    THEN [found |-> TRUE, panic |-> FALSE, value |-> new_value]
    ELSE IF tree.kind = "map"
         THEN find_in_map(tree, 1, cur, target, new_value)
         ELSE [found |-> FALSE, panic |-> FALSE, value |-> tree]

\* variant: the loop does not return at the first match but goes on
find_in_map_no_return(map, i, cur, target, new_value) ==
    IF i > Len(map.kids)
    THEN [found |-> FALSE, panic |-> FALSE, value |-> map]
    ELSE IF map.kids[i].key.kind # "str"
    THEN [found |-> FALSE, panic |-> TRUE, value |-> map]
    ELSE LET r == find_and_update(map.kids[i].val,
                                  cur \o <<"_">> \o to_key_str(map.kids[i].key),
                                  target, new_value)
             rest == find_in_map_no_return([map EXCEPT !.kids[i].val = r.value],
                                           i + 1, cur, target, new_value)
         IN IF r.panic THEN [found |-> FALSE, panic |-> TRUE, value |-> map]
            ELSE [rest EXCEPT !.found = r.found \/ rest.found]

\* the for loop over the entries of map, from entry i on
find_in_map(map, i, cur, target, new_value) ==
    IF i > Len(map.kids)
    THEN [found |-> FALSE, panic |-> FALSE, value |-> map]
    ELSE IF map.kids[i].key.kind # "str"
    THEN [found |-> FALSE, panic |-> TRUE, value |-> map]
    ELSE LET r == find_and_update(map.kids[i].val,
                                  cur \o <<"_">> \o to_key_str(map.kids[i].key),
                                  target, new_value)
         IN IF r.panic THEN [found |-> FALSE, panic |-> TRUE, value |-> map]
            ELSE IF r.found
            THEN [found |-> TRUE, panic |-> FALSE,
                  value |-> [map EXCEPT !.kids[i].val = r.value]]
            ELSE find_in_map(map, i + 1, cur, target, new_value)

(***************************************************************************)
(* Serializer::load as a function of the Serializer's fields and of what   *)
(* std::env::var returns for the current path.                             *)
(***************************************************************************)
Absent == [kind |-> "Absent", text |-> ""]
Failed == [kind |-> "Failed", text |-> ""]
Present(text) == [kind |-> "Present", text |-> text]

path(cp) == join(cp)

\* variant: the path is looked up in the set but not added to it
insert_forgetful(ps, p) == [paths |-> ps, fresh |-> p \notin ps]

\* self.paths.insert(path): the new set, and whether path was newly inserted
insert(ps, p) == [paths |-> ps \cup {p}, fresh |-> p \notin ps]

\* let val = if val.is_empty() { "~".into() } else { val }
empty_as_null(text) == IF text = "" THEN "~" ELSE text

\* variant: a variable that is not set is treated like one set to ""
SerializerLoad_AbsentAsEmpty(cp, ps, tree, r) ==
    LET p == path(cp)
        ins == insert(ps, p)
        base == [paths |-> ins.paths, warned |-> ~ins.fresh, value |-> tree,
                 called |-> FALSE, frag |-> Null, found |-> FALSE, err |-> "none"]
    IN CASE r.kind = "Failed" -> [base EXCEPT !.err = "VarError"]
         [] OTHER ->
              LET parsed == from_str(empty_as_null(r.text))
              IN IF ~parsed.ok THEN [base EXCEPT !.err = "PackError"]
                 ELSE LET f == find_and_update(tree, cp[1], p, parsed.val)
                      IN [base EXCEPT !.called = TRUE, !.frag = parsed.val,
                                      !.found = f.found, !.value = f.value,
                                      !.err = IF f.panic THEN "panic" ELSE "none"]

\* [paths, value]: the Serializer's fields after the call; warned: warn! was
\* called; called, frag, found: the find_and_update call, if one was made;
\* err: "none" (Ok(())), the Error returned, or "panic"
SerializerLoad(cp, ps, tree, r) ==
    LET p == path(cp)
        ins == insert(ps, p)
        base == [paths |-> ins.paths, warned |-> ~ins.fresh, value |-> tree,
                 called |-> FALSE, frag |-> Null, found |-> FALSE, err |-> "none"]
    IN CASE r.kind = "Absent" -> base
         [] r.kind = "Failed" -> [base EXCEPT !.err = "VarError"]
         [] OTHER ->
              LET parsed == from_str(empty_as_null(r.text))
              IN IF ~parsed.ok THEN [base EXCEPT !.err = "PackError"]
                 ELSE LET f == find_and_update(tree, cp[1], p, parsed.val)
                      IN [base EXCEPT !.called = TRUE, !.frag = parsed.val,
                                      !.found = f.found, !.value = f.value,
                                      !.err = IF f.panic THEN "panic" ELSE "none"]

\* variant: an Err of Serializer::load is dropped and the walk goes on
AfterLoad_swallow(err) ==
    CASE err = "panic" -> "panicked"
      [] OTHER -> "returned"

\* where the call goes after Serializer::load returned: Ok(()) lets the walk
\* go on, an Err is passed up by every `?` to load's caller, a panic unwinds
AfterLoad(err) ==
    CASE err = "none" -> "returned"
      [] err = "panic" -> "panicked"
      [] OTHER -> "done"

(***************************************************************************)
(* The inputs of one call.                                                 *)
(***************************************************************************)
Names == {<<"a">>, <<"B">>, <<"a", "_", "b">>}

Leaves == {NumT(0), OptT(TRUE, 1), SeqT(<<1>>),
           MapT(<<[name |-> <<"b">>, val |-> NumT(0)]>>)}

\* the lists of n distinct field names
NameLists(n) == {f \in [1..n -> Names] : \A i, j \in 1..n : f[i] = f[j] => i = j}

RECURSIVE Leaves_(_, _)
Leaves_(vals, n) == IF n = 0 THEN 0 ELSE LeafCount(vals[n]) + Leaves_(vals, n - 1)

\* the structs of 1..MaxFields fields with values in S and at most
\* MaxLeaves non-record nodes
Recs(S) ==
    UNION {{RecT([i \in 1..n |-> [name |-> names[i], val |-> vals[i]]]) :
                names \in NameLists(n),
                vals \in {v \in [1..n -> {x \in S : LeafCount(x) <= MaxLeaves - (n - 1)}] :
                             Leaves_(v, n) <= MaxLeaves}} :
           n \in 1..MaxFields}

RECURSIVE TypedValues(_)
TypedValues(d) ==
    IF d = 0 THEN Leaves ELSE Leaves \cup Recs(TypedValues(d - 1))

Inputs == TypedValues(MaxDepth)

Prefixes == {<<"p">>}

NoResult == [kind |-> "none", err |-> "", val |-> NoT]

Init ==
    /\ t \in Inputs
    /\ pfx \in Prefixes
    /\ env = <<>>
    /\ pc = "start"
    /\ pos = <<>>
    /\ curpath = <<>>
    /\ paths = {}
    /\ value = Null
    /\ warnings = <<>>
    /\ calls = <<>>
    /\ result = NoResult

(***************************************************************************)
(* load, up to the walk: to_value and Serializer::new.                     *)
(***************************************************************************)
Start ==
    /\ pc = "start"
    /\ value' = to_value(t)
    /\ curpath' = <<to_uppercase(pfx)>>
    /\ paths' = {}
    /\ pc' = "serialize"
    /\ pos' = <<>>
    /\ UNCHANGED <<t, pfx, env, warnings, calls, result>>

Parent(p) == SubSeq(p, 1, Len(p) - 1)
Last(p) == p[Len(p)]

\* serialize_struct: no overlay check; the fields follow
SerializeStruct ==
    /\ pc = "serialize"
    /\ TypedAt(t, pos).ty = "rec"
    /\ pc' = "field"
    /\ pos' = Append(pos, 1)
    /\ UNCHANGED <<t, pfx, env, curpath, paths, value, warnings, calls, result>>

\* SerializeStruct::serialize_field up to value.serialize: enter(key)
SerializeFieldEnter ==
    /\ pc = "field"
    /\ Last(pos) <= Len(TypedAt(t, Parent(pos)).fields)
    /\ curpath' = Append(curpath, to_uppercase(TypedAt(t, Parent(pos)).fields[Last(pos)].name))
    /\ pc' = "serialize"
    /\ UNCHANGED <<t, pfx, env, pos, paths, value, warnings, calls, result>>

\* SerializeStruct::serialize_field after value.serialize returned Ok: exit()
SerializeFieldExit ==
    /\ pc = "returned"
    /\ pos # <<>>
    /\ curpath' = SubSeq(curpath, 1, Len(curpath) - 1)
    /\ pos' = Append(Parent(pos), Last(pos) + 1)
    /\ pc' = "field"
    /\ UNCHANGED <<t, pfx, env, paths, value, warnings, calls, result>>

\* SerializeStruct::end
SerializeStructEnd ==
    /\ pc = "field"
    /\ Last(pos) > Len(TypedAt(t, Parent(pos)).fields)
    /\ pos' = Parent(pos)
    /\ pc' = "returned"
    /\ UNCHANGED <<t, pfx, env, curpath, paths, value, warnings, calls, result>>

\* every serialize_* of a non-record node: Serializer::load with lookup result r
Load(r) ==
    /\ pc = "serialize"
    /\ TypedAt(t, pos).ty # "rec"
    /\ LET p == path(curpath)
           o == SerializerLoad(curpath, paths, value, r)
       IN /\ p \in DOMAIN env => env[p] = r
          /\ env' = IF p \in DOMAIN env THEN env ELSE (p :> r) @@ env
          /\ paths' = o.paths
          /\ value' = o.value
          /\ warnings' = IF o.warned THEN Append(warnings, p) ELSE warnings
          /\ calls' = Append(calls,
                 [addr |-> p, cp |-> curpath, pos |-> pos, res |-> r, warned |-> o.warned,
                  called |-> o.called, frag |-> o.frag, found |-> o.found,
                  err |-> o.err, before |-> value, after |-> o.value])
          /\ pc' = AfterLoad(o.err)
          /\ result' = IF AfterLoad(o.err) = "done"
                       THEN [kind |-> "Err", err |-> o.err, val |-> NoT]
                       ELSE result
    /\ UNCHANGED <<t, pfx, pos, curpath>>

\* Err(VarError::NotPresent)
LoadAbsent ==
    /\ pc = "serialize"
    /\ Load(Absent)

\* Err(e), any other error of std::env::var
LoadFailed ==
    /\ pc = "serialize"
    /\ Load(Failed)

\* Ok(val)
LoadPresent ==
    /\ pc = "serialize"
    /\ \E text \in Texts : Load(Present(text))

\* load, after the walk returned Ok: from_value on the Serializer's tree
Finish ==
    /\ pc = "returned"
    /\ pos = <<>>
    /\ LET d == from_value(t, value)
       IN result' = IF d.ok THEN [kind |-> "Ok", err |-> "", val |-> d.val]
                    ELSE [kind |-> "Err", err |-> "PackError", val |-> NoT]
    /\ pc' = "done"
    /\ UNCHANGED <<t, pfx, env, pos, curpath, paths, value, warnings, calls>>

Next ==
    \/ Start
    \/ SerializeStruct
    \/ SerializeFieldEnter
    \/ SerializeFieldExit
    \/ SerializeStructEnd
    \/ LoadAbsent
    \/ LoadPresent
    \/ LoadFailed
    \/ Finish

Spec == Init /\ [][Next]_vars

(***************************************************************************)
(* find_and_update on its own: from a baseline tree, up to MaxPatches      *)
(* calls with a target and a fragment drawn from small sets, each applied  *)
(* to the tree the previous one left.                                      *)
(***************************************************************************)
MaxPatches == 2

Targets == {<<"P">>, <<"P", "_", "A">>, <<"P", "_", "B">>, <<"P", "_", "A", "_", "B">>,
            <<"P", "_", "A", "_", "B", "_", "B">>}

Fragments == {Number(5),
              Mapping(<<[key |-> String(<<"b">>), val |-> Number(5)]>>),
              Mapping(<<[key |-> Number(1), val |-> Number(5)]>>)}

PatchInputs == {v \in Inputs : v.ty = "rec" /\ Len(v.fields) = MaxFields}

PatchInit ==
    /\ t \in PatchInputs
    /\ pfx \in Prefixes
    /\ env = <<>>
    /\ pc = "patch"
    /\ pos = <<>>
    /\ curpath = <<to_uppercase(pfx)>>
    /\ paths = {}
    /\ value = to_value(t)
    /\ warnings = <<>>
    /\ calls = <<>>
    /\ result = NoResult

Patch ==
    /\ pc = "patch"
    /\ Len(calls) < MaxPatches
    /\ \E target \in Targets, frag \in Fragments :
          LET f == find_and_update(value, curpath[1], target, frag)
          IN /\ value' = f.value
             /\ calls' = Append(calls,
                    [addr |-> target, cp |-> curpath, pos |-> <<>>, res |-> Absent,
                     warned |-> FALSE, called |-> TRUE, frag |-> frag, found |-> f.found,
                     err |-> IF f.panic THEN "panic" ELSE "none",
                     before |-> value, after |-> f.value])
             /\ pc' = IF f.panic THEN "panicked" ELSE "patch"
    /\ UNCHANGED <<t, pfx, env, pos, curpath, paths, warnings, result>>

PatchSpec == PatchInit /\ [][Patch]_vars

(***************************************************************************)
(* Vocabulary of the properties.                                           *)
(***************************************************************************)
RECURSIVE Addressed(_, _, _)
RECURSIVE AddressedKids(_, _, _, _)

\* The nodes of tree that carry an address, in depth-first, mapping-key
\* order, each with its path (child indices from the root) and its address:
\* the root has address cur, and the value of a mapping entry has the
\* address of the mapping, "_", and the upper-cased key.
Addressed(tree, cur, p) ==
    <<[path |-> p, addr |-> cur]>>
        \o (IF tree.kind = "map" THEN AddressedKids(tree, cur, p, 1) ELSE <<>>)

AddressedKids(tree, cur, p, i) ==
    IF i > Len(tree.kids) THEN <<>>
    ELSE (IF tree.kids[i].key.kind = "str"
          THEN Addressed(tree.kids[i].val,
                         cur \o <<"_">> \o to_uppercase(tree.kids[i].key.str),
                         Append(p, i))
          ELSE <<>>)
         \o AddressedKids(tree, cur, p, i + 1)

\* the paths of the nodes of tree whose address is target, first match first
Matches(tree, cur, target) ==
    LET Hit(e) == e.addr = target
        hits == SelectSeq(Addressed(tree, cur, <<>>), Hit)
    IN [k \in 1..Len(hits) |-> hits[k].path]

RECURSIVE HasPath(_, _)
HasPath(tree, p) ==
    \/ p = <<>>
    \/ /\ Head(p) \in 1..Len(tree.kids)
       /\ HasPath(tree.kids[Head(p)].val, Tail(p))

RECURSIVE NodeAt(_, _)
NodeAt(tree, p) == IF p = <<>> THEN tree ELSE NodeAt(tree.kids[Head(p)].val, Tail(p))

RECURSIVE ReplaceAt(_, _, _)
ReplaceAt(tree, p, new) ==
    IF p = <<>> THEN new
    ELSE [tree EXCEPT !.kids[Head(p)].val = ReplaceAt(tree.kids[Head(p)].val, Tail(p), new)]

Root == to_uppercase(pfx)

\* the typed positions of v below p, in declared field order
RECURSIVE Positions(_, _)
RECURSIVE PositionsFrom(_, _, _)
Positions(v, p) ==
    <<p>> \o (IF v.ty = "rec" THEN PositionsFrom(v, p, 1) ELSE <<>>)
PositionsFrom(v, p, i) ==
    IF i > Len(v.fields) THEN <<>>
    ELSE Positions(v.fields[i].val, Append(p, i)) \o PositionsFrom(v, p, i + 1)

PosSet(v) == {Positions(v, <<>>)[i] : i \in 1..Len(Positions(v, <<>>))}
LeafPositions(v) == {p \in PosSet(v) : TypedAt(v, p).ty # "rec"}

\* PREFIX_F1_..._Fn: the upper-cased field-name chain down to position p
RECURSIVE NameChain(_, _)
NameChain(v, p) ==
    IF p = <<>> THEN <<>>
    ELSE <<to_uppercase(v.fields[Head(p)].name)>> \o NameChain(v.fields[Head(p)].val, Tail(p))

AddressOf(v, p) == join(<<Root>> \o NameChain(v, p))

CallIdx == 1..Len(calls)
Decodes(r) == r.kind = "Present" /\ (r.text = "" \/ from_str(r.text).ok)

AllAbsent == \A i \in CallIdx : calls[i].res.kind = "Absent"

(***************************************************************************)
(* C1.  Identity when no overrides are present: as long as every lookup of *)
(* the call returned Absent, the Serializer's tree is the baseline tree    *)
(* to_value(t), and when the call is done load has returned Ok(t).         *)
(***************************************************************************)
C1_IdentityWithoutOverrides ==
    AllAbsent =>
        /\ pc # "start" => value = to_value(t)
        /\ pc \notin {"panicked"}
        /\ pc = "done" => result = [kind |-> "Ok", err |-> "", val |-> t]

C1_Witness ==
    /\ pc = "done"
    /\ AllAbsent
    /\ Len(calls) = MaxLeaves
    /\ t.ty = "rec"
    /\ result.kind = "Ok"
    /\ result.val = t

ScalarLeaves(v) == \A p \in LeafPositions(v) : TypedAt(v, p).ty = "num"

DistinctAddresses(tree) ==
    LET a == Addressed(tree, Root, <<>>)
    IN \A i, j \in 1..Len(a) : a[i].addr = a[j].addr => i = j

Overridden(a) == a \in DOMAIN env /\ env[a].kind = "Present" /\ env[a].text # ""

(***************************************************************************)
(* C2.  Targeted nested override: for a typed value of nested records with *)
(* scalar leaves whose baseline tree has pairwise distinct node addresses  *)
(* (records included), after load returned Ok every leaf whose address     *)
(* PREFIX_F1_..._Fn has a Present, non-empty variable holds the value      *)
(* decoded from that variable's text, and every other leaf holds its       *)
(* baseline value.                                                         *)
(***************************************************************************)
C2_TargetedNestedOverride ==
    (/\ pc = "done"
     /\ result.kind = "Ok"
     /\ ScalarLeaves(t)
     /\ DistinctAddresses(to_value(t)))
    => \A p \in LeafPositions(t) :
          LET a == AddressOf(t, p)
          IN IF Overridden(a)
             THEN /\ from_str(env[a].text).ok
                  /\ from_value(TypedAt(t, p), from_str(env[a].text).val).ok
                  /\ TypedAt(result.val, p)
                        = from_value(TypedAt(t, p), from_str(env[a].text).val).val
             ELSE TypedAt(result.val, p) = TypedAt(t, p)

C2_Witness ==
    /\ pc = "done"
    /\ result.kind = "Ok"
    /\ ScalarLeaves(t)
    /\ DistinctAddresses(to_value(t))
    /\ \E p, q \in LeafPositions(t) :
          /\ Len(p) = 2
          /\ p # q
          /\ Overridden(AddressOf(t, p))
          /\ ~Overridden(AddressOf(t, q))
          /\ TypedAt(result.val, p) = NumT(5)
          /\ TypedAt(result.val, q) = NumT(0)

FailedSeen == \E i \in CallIdx : calls[i].res.kind = "Failed"

(***************************************************************************)
(* C3.  Failure atomicity: the overlay check whose lookup returns Failed   *)
(* ends the call, whatever was patched into the tree before: load returns  *)
(* the VarError and no typed value, nothing happens after it, and no step  *)
(* of the call changes the caller's value t.                               *)
(***************************************************************************)
C3_FailureAtomicity ==
    [][/\ t' = t
       /\ ~FailedSeen
       /\ FailedSeen' =>
             /\ pc' = "done"
             /\ result' = [kind |-> "Err", err |-> "VarError", val |-> NoT]]_vars

C3_Witness ==
    /\ Len(calls) = 2
    /\ calls[1].called /\ calls[1].found /\ calls[1].after # calls[1].before
    /\ calls[2].res.kind = "Failed"
    /\ value # to_value(t)
    /\ result.kind = "Err"

SeqFields == {p \in LeafPositions(t) : TypedAt(t, p).ty = "seq"}

(***************************************************************************)
(* C4.  Whole-collection override: in every call of the patcher a sequence *)
(* node that encodes a sequence field either stays as it was or is         *)
(* replaced as a whole by the fragment addressed to that field.            *)
(***************************************************************************)
C4_WholeCollectionOverride ==
    \A i \in CallIdx :
        (calls[i].called /\ calls[i].err = "none") =>
            \A p \in SeqFields :
                (HasPath(calls[i].before, p) /\ NodeAt(calls[i].before, p).kind = "seq") =>
                    \/ /\ HasPath(calls[i].after, p)
                       /\ NodeAt(calls[i].after, p) = NodeAt(calls[i].before, p)
                    \/ /\ calls[i].addr = AddressOf(t, p)
                       /\ HasPath(calls[i].after, p)
                       /\ NodeAt(calls[i].after, p) = calls[i].frag

(***************************************************************************)
(* C5.  Empty-string-as-null: an overlay check whose variable is Present   *)
(* with empty text raises no decode error; the fragment it hands to the    *)
(* patcher is null, the patcher puts it into the tree at the overlay       *)
(* check's address, and when the field checked is an optional its node     *)
(* holds null afterwards.                                                  *)
(***************************************************************************)
C5_EmptyStringAsNull ==
    \A i \in CallIdx :
        calls[i].res = Present("") =>
            /\ calls[i].err # "PackError"
            /\ calls[i].called
            /\ calls[i].frag = Null
            /\ calls[i].found
            /\ LET m == Matches(calls[i].before, Root, calls[i].addr)
               IN /\ m # <<>>
                  /\ NodeAt(calls[i].after, m[1]) = Null
            /\ TypedAt(t, calls[i].pos).ty = "opt" =>
                  /\ HasPath(calls[i].after, calls[i].pos)
                  /\ NodeAt(calls[i].after, calls[i].pos) = Null

\* the part of it that concerns the text alone: never a decode error, and
\* the fragment handed to the patcher is null
EmptyTextGivesNullFragment ==
    \A i \in CallIdx :
        calls[i].res = Present("") =>
            /\ calls[i].err # "PackError"
            /\ calls[i].called
            /\ calls[i].frag = Null

(***************************************************************************)
(* C6.  Ambiguity is call-scoped and non-fatal: an overlay check warns     *)
(* exactly when an earlier overlay check of the same call, anywhere in the *)
(* structure, observed the same address; warned or not, the variable is    *)
(* looked up, the patcher is called exactly when the variable is Present   *)
(* with text that decodes, and the check returns an error exactly when the *)
(* lookup Failed or the text does not decode.                              *)
(***************************************************************************)
C6_AmbiguityCallScoped ==
    /\ \A i \in CallIdx :
          /\ calls[i].warned <=> \E j \in 1..(i - 1) : calls[j].addr = calls[i].addr
          /\ calls[i].addr \in DOMAIN env /\ env[calls[i].addr] = calls[i].res
          /\ calls[i].called <=> Decodes(calls[i].res)
          /\ calls[i].called => calls[i].frag = from_str(empty_as_null(calls[i].res.text)).val
          /\ (calls[i].err \in {"VarError", "PackError"})
                <=> (calls[i].res.kind # "Absent" /\ ~Decodes(calls[i].res))
    /\ warnings = LET W(c) == c.warned
                      w == SelectSeq(calls, W)
                  IN [k \in 1..Len(w) |-> w[k].addr]

C6_Witness ==
    /\ Len(calls) = 2
    /\ Len(calls[1].pos) = 2
    /\ Len(calls[2].pos) = 1
    /\ calls[2].warned
    /\ calls[2].res = Present("5")
    /\ calls[2].called /\ calls[2].found
    /\ warnings = <<calls[2].addr>>
    /\ pc = "done"
    /\ result.kind = "Ok"

RECURSIVE Replay(_, _, _)
\* the Serializer's [paths, value, err] after the overlay checks cs, in order
Replay(cs, ps, tree) ==
    IF cs = <<>> THEN [paths |-> ps, value |-> tree, err |-> "none"]
    ELSE LET o == SerializerLoad(cs[1].cp, ps, tree, cs[1].res)
         IN IF o.err # "none" THEN [paths |-> o.paths, value |-> o.value, err |-> o.err]
            ELSE Replay(Tail(cs), o.paths, o.value)

Reversed(q) == [i \in 1..Len(q) |-> q[Len(q) + 1 - i]]

(***************************************************************************)
(* C7.  Traversal order does not affect patch selection: walking the       *)
(* sibling fields in the opposite order, from the same baseline tree and   *)
(* with the same environment, yields the same final tree.                  *)
(***************************************************************************)
C7_OrderIndependent ==
    (pc = "returned" /\ pos = <<>>) =>
        LET other == Replay(Reversed(calls), {}, to_value(t))
        IN other.err = "none" /\ other.value = value

(***************************************************************************)
(* C8.  Patcher first match wins: a call of find_and_update that returns   *)
(* returns true exactly when some node's recomputed address equals the     *)
(* target; it then replaces the first such node in depth-first,            *)
(* mapping-key order by the fragment and leaves the rest of the tree,      *)
(* later nodes with the same address included, as it was; when it returns  *)
(* false the tree is as it was; a call that panics has replaced nothing.   *)
(***************************************************************************)
C8_FirstMatchWins ==
    \A i \in CallIdx :
        calls[i].called =>
            IF calls[i].err = "none"
            THEN LET m == Matches(calls[i].before, calls[i].cp[1], calls[i].addr)
                 IN /\ calls[i].found <=> m # <<>>
                    /\ calls[i].after = IF m = <<>> THEN calls[i].before
                                        ELSE ReplaceAt(calls[i].before, m[1], calls[i].frag)
            ELSE ~calls[i].found /\ calls[i].after = calls[i].before

C8_Witness ==
    \E i \in CallIdx :
        LET m == Matches(calls[i].before, calls[i].cp[1], calls[i].addr)
        IN /\ calls[i].found
           /\ Len(m) = 2
           /\ NodeAt(calls[i].after, m[1]) = calls[i].frag
           /\ NodeAt(calls[i].after, m[2]) = NodeAt(calls[i].before, m[2])
           /\ NodeAt(calls[i].after, m[2]) # calls[i].frag

(***************************************************************************)
(* C9.  Absence of an ambiguity warning implies an unambiguous patch       *)
(* target: in a call that ended without any warning, every patch replaced  *)
(* exactly the tree node at the structural position of the typed field     *)
(* whose overlay check made it.                                            *)
(***************************************************************************)
C9_NoWarningNoMisdirectedPatch ==
    (pc \in {"done", "panicked"} /\ warnings = <<>>) =>
        \A i \in CallIdx :
            (calls[i].called /\ calls[i].found) =>
                /\ HasPath(calls[i].before, calls[i].pos)
                /\ calls[i].after
                      = ReplaceAt(calls[i].before, calls[i].pos, calls[i].frag)

(***************************************************************************)
(* C10.  No override is silently dropped: every find_and_update call made  *)
(* by an overlay check returns true.                                       *)
(***************************************************************************)
C10_EveryPatchFindsItsNode ==
    \A i \in CallIdx : calls[i].called => calls[i].found

\* the calls that return do return true
PatchThatReturnsFinds ==
    \A i \in CallIdx : (calls[i].called /\ calls[i].err = "none") => calls[i].found

====
